---- MODULE Spec2Model ----
(***************************************************************************)
(* Offset tree reduction of vowpalwabbit/offset_tree.cc:                   *)
(*   - min_depth_binary_tree::build_tree, the tournament construction of   *)
(*     the flat node list;                                                 *)
(*   - offset_tree::predict, one scorer invocation per internal node and   *)
(*     the reverse pass that turns the stored pairs into leaf scores;      *)
(*   - the reduction level predict and learn.                              *)
(* Node ids are zero based as in the source; the node with id i is         *)
(* nodes[i + 1] here.  Scores are exact rationals <<numerator,             *)
(* denominator>>; the rounding of float multiplication is not modelled.    *)
(***************************************************************************)
EXTENDS Integers, Sequences, FiniteSets

VARIABLES
  tree,               \* per tree object: nodes, root_idx, num_leaf_nodes, initialized
  prediction_buffer,  \* static thread_local prediction_buffer of offset_tree::predict
  scores,             \* static thread_local scores of offset_tree::predict
  a_s,                \* ec.pred.a_s, the example's action-score list
  pc,                 \* position of the thread inside the reduction-level predict
  cur,                \* the tree of the running (or of the last) predict call, 0 = none
  idx,                \* loop variable of the scorer loop
  calls,              \* the scorer invocations of the running (or last) predict call
  stale,              \* the running predict call found values of an earlier call in scores
  last,               \* the operation called last and the error it threw
  failures            \* number of allocations that have thrown bad_alloc

vars == <<tree, prediction_buffer, scores, a_s, pc, cur, idx, calls, stale, last, failures>>

\* ------------------------------------------------------------------ bounds
\* largest leaf count a tree is built with where predict runs too
MaxLeaves == 4
\* largest leaf count in the specifications that only build trees
MaxTreeLeaves == 12
\* number of bad_alloc a behaviour may inject
MaxFailures == 2

\* the tree objects of the process
Trees == {1, 2}

\* ------------------------------------------------------------------ tree_node
tree_node(node_id, left_node_id, right_node_id, is_leaf) ==
  [id |-> node_id, left_id |-> left_node_id, right_id |-> right_node_id,
   is_leaf |-> is_leaf]

\* a tree object before build_tree has run on it
EmptyTree ==
  [nodes |-> <<>>, root_idx |-> 0, num_leaf_nodes |-> 0, initialized |-> FALSE]

\* ------------------------------------------------------------------ build_tree
\* The allocations of one build_tree call are numbered in program order:
\* 1 = nodes.reserve, 2 = tournaments.reserve, 3, 4, ... = new_tournaments.reserve
\* of the first, second, ... round.  failAt names the one that throws
\* bad_alloc, 0 = none.

\* the for loop that adds the leaves
LeafNodes(num_leaf_nodes) ==
  [i \in 1..num_leaf_nodes |-> tree_node(i - 1, 0, 0, TRUE)]

LeafTournaments(num_leaf_nodes) == [i \in 1..num_leaf_nodes |-> i - 1]

\* faulty variant: the odd candidate of a round is dropped instead of carried forward
RECURSIVE TournamentRoundsDropOdd(_, _, _, _)
TournamentRoundsDropOdd(ns, tournaments, alloc, failAt) ==
  IF Len(tournaments) <= 1
  THEN [nodes |-> ns, root |-> tournaments[1], oom |-> FALSE]
  ELSE IF failAt = alloc
  THEN [nodes |-> ns, root |-> 0, oom |-> TRUE]
  ELSE LET num_tournaments == Len(tournaments)
           id == Len(ns)
           half == num_tournaments \div 2
           created == [j \in 1..half |->
                         tree_node(id + j - 1, tournaments[2 * j - 1], tournaments[2 * j], FALSE)]
           new_tournaments == [j \in 1..half |-> id + j - 1]
       IN TournamentRoundsDropOdd(ns \o created, new_tournaments, alloc + 1, failAt)

\* faulty variant: the carried candidate goes to the front of the next round
RECURSIVE TournamentRoundsCarryFirst(_, _, _, _)
TournamentRoundsCarryFirst(ns, tournaments, alloc, failAt) ==
  IF Len(tournaments) <= 1
  THEN [nodes |-> ns, root |-> tournaments[1], oom |-> FALSE]
  ELSE IF failAt = alloc
  THEN [nodes |-> ns, root |-> 0, oom |-> TRUE]
  ELSE LET num_tournaments == Len(tournaments)
           id == Len(ns)
           half == num_tournaments \div 2
           created == [j \in 1..half |->
                         tree_node(id + j - 1, tournaments[2 * j - 1], tournaments[2 * j], FALSE)]
           new_tournaments ==
             (IF num_tournaments % 2 = 1 THEN <<tournaments[num_tournaments]>> ELSE <<>>)
             \o [j \in 1..half |-> id + j - 1]
       IN TournamentRoundsCarryFirst(ns \o created, new_tournaments, alloc + 1, failAt)

\* faulty variant: a round pairs only its first two candidates
RECURSIVE TournamentRoundsOnePair(_, _, _, _)
TournamentRoundsOnePair(ns, tournaments, alloc, failAt) ==
  IF Len(tournaments) <= 1
  THEN [nodes |-> ns, root |-> tournaments[1], oom |-> FALSE]
  ELSE IF failAt = alloc
  THEN [nodes |-> ns, root |-> 0, oom |-> TRUE]
  ELSE LET num_tournaments == Len(tournaments)
           id == Len(ns)
           created == <<tree_node(id, tournaments[1], tournaments[2], FALSE)>>
           new_tournaments == <<id>> \o SubSeq(tournaments, 3, num_tournaments)
       IN TournamentRoundsOnePair(ns \o created, new_tournaments, alloc + 1, failAt)

\* the while loop: pairs the candidates round by round.  Returns the node
\* list, the last candidate (the root) and whether bad_alloc was thrown.
RECURSIVE TournamentRounds(_, _, _, _)
TournamentRounds(ns, tournaments, alloc, failAt) ==
  IF Len(tournaments) <= 1
  THEN [nodes |-> ns, root |-> tournaments[1], oom |-> FALSE]
  ELSE IF failAt = alloc
  THEN [nodes |-> ns, root |-> 0, oom |-> TRUE]
  ELSE LET num_tournaments == Len(tournaments)
           id == Len(ns)
           half == num_tournaments \div 2
           created == [j \in 1..half |->
                         tree_node(id + j - 1, tournaments[2 * j - 1], tournaments[2 * j], FALSE)]
           new_tournaments ==
             [j \in 1..half |-> id + j - 1]
             \o (IF num_tournaments % 2 = 1 THEN <<tournaments[num_tournaments]>> ELSE <<>>)
       IN TournamentRounds(ns \o created, new_tournaments, alloc + 1, failAt)

\* the number of allocations a successful construction of num_nodes leaves makes
RECURSIVE RoundCount(_)
RoundCount(n) == IF n <= 1 THEN 0 ELSE 1 + RoundCount((n + 1) \div 2)

AllocCount(num_nodes) == IF num_nodes = 0 THEN 0 ELSE 2 + RoundCount(num_nodes)

\* lines 37-82: the construction on a tree that is not initialized
construct(t, num_nodes, failAt) ==
  LET t1 == [t EXCEPT !.num_leaf_nodes = num_nodes]
  IN IF num_nodes = 0
     THEN [tree |-> [t1 EXCEPT !.initialized = TRUE], err |-> "none"]
     ELSE IF failAt \in {1, 2}
     THEN [tree |-> t1, err |-> "oom"]
     ELSE LET r == TournamentRounds(t1.nodes \o LeafNodes(num_nodes),
                                    LeafTournaments(num_nodes), 3, failAt)
          IN IF r.oom
             THEN [tree |-> [t1 EXCEPT !.nodes = r.nodes], err |-> "oom"]
             ELSE [tree |-> [t1 EXCEPT !.nodes = r.nodes, !.root_idx = r.root,
                                       !.initialized = TRUE],
                   err |-> "none"]

\* faulty variant: the sanity checks are missing, an initialized tree is built again
build_tree_Rebuild(t, num_nodes, failAt) == construct(t, num_nodes, failAt)

\* faulty variant: a different leaf count on an initialized tree is not reported
build_tree_NoConflict(t, num_nodes, failAt) ==
  IF t.initialized
  THEN [tree |-> t, err |-> "none"]
  ELSE construct(t, num_nodes, failAt)

\* min_depth_binary_tree::build_tree on the tree object t: the tree it
\* leaves and the error it throws
build_tree(t, num_nodes, failAt) ==
  IF t.initialized
  THEN IF num_nodes # t.num_leaf_nodes
       THEN [tree |-> t, err |-> "conflict"]
       ELSE [tree |-> t, err |-> "none"]
  ELSE construct(t, num_nodes, failAt)

\* faulty variant: every node is counted, not only the internal ones
internal_node_count_AllNodes(t) == Len(t.nodes)

\* nodes.size() - _num_leaf_nodes in uint32_t.  The actions evaluate it on
\* initialized trees only, where the difference is not negative and far
\* below 2^32, so the wrap-around of the subtraction is never taken.
internal_node_count(t) == Len(t.nodes) - t.num_leaf_nodes

leaf_node_count(t) == t.num_leaf_nodes

\* offset_tree::learner_count
learner_count(t) == internal_node_count(t)

\* ------------------------------------------------------------------ scores
\* a score is the exact rational <<numerator, denominator>>
Zero == <<0, 1>>
One == <<1, 1>>
Times(a, b) == <<a[1] * b[1], a[2] * b[2]>>

\* the (left, right) pairs the external scorer answers with: three that sum
\* to 1 and one that does not
ScorerPairs ==
  { << <<9, 10>>, <<1, 10>> >>,
    << <<6, 10>>, <<4, 10>> >>,
    << <<3, 10>>, <<7, 10>> >>,
    << <<5, 10>>, <<2, 10>> >> }

\* faulty variant: clear() left out, the old elements stay
clear_Keep(v) == v

\* std::vector::clear
clear(v) == <<>>

\* std::vector<float>::resize: keeps the elements that fit, value-initializes
\* the new ones
resize(v, n) ==
  IF Len(v) >= n THEN SubSeq(v, 1, n) ELSE v \o [i \in 1..(n - Len(v)) |-> Zero]

\* offset_helper::operator[]: the buffer position of the node with id node_id
offset_helper(start_index_offset, node_id) == node_id - start_index_offset + 1

\* faulty variant: the right child's own right probability is not scaled by right_p
PropagateNode_RightUnscaled(t, n, buf, sc) ==
  LET off == leaf_node_count(t)
      left_p == buf[offset_helper(off, n.id)][1]
      left_is_leaf == t.nodes[n.left_id + 1].is_leaf
      sc1 == IF left_is_leaf THEN [sc EXCEPT ![n.left_id + 1] = left_p] ELSE sc
      buf1 == IF left_is_leaf THEN buf
              ELSE [buf EXCEPT ![offset_helper(off, n.left_id)] =
                      <<Times(@[1], left_p), Times(@[2], left_p)>>]
      right_p == buf1[offset_helper(off, n.id)][2]
      right_is_leaf == t.nodes[n.right_id + 1].is_leaf
      sc2 == IF right_is_leaf THEN [sc1 EXCEPT ![n.right_id + 1] = right_p] ELSE sc1
      buf2 == IF right_is_leaf THEN buf1
              ELSE [buf1 EXCEPT ![offset_helper(off, n.right_id)] =
                      <<Times(@[1], right_p), @[2]>>]
  IN [buffer |-> buf2, scores |-> sc2]

\* One step of the reverse pass for the internal node n: hands the mass of n
\* to its left child, then to its right child.
PropagateNode(t, n, buf, sc) ==
  LET off == leaf_node_count(t)
      left_p == buf[offset_helper(off, n.id)][1]
      left_is_leaf == t.nodes[n.left_id + 1].is_leaf
      sc1 == IF left_is_leaf THEN [sc EXCEPT ![n.left_id + 1] = left_p] ELSE sc
      buf1 == IF left_is_leaf THEN buf
              ELSE [buf EXCEPT ![offset_helper(off, n.left_id)] =
                      <<Times(@[1], left_p), Times(@[2], left_p)>>]
      right_p == buf1[offset_helper(off, n.id)][2]
      right_is_leaf == t.nodes[n.right_id + 1].is_leaf
      sc2 == IF right_is_leaf THEN [sc1 EXCEPT ![n.right_id + 1] = right_p] ELSE sc1
      buf2 == IF right_is_leaf THEN buf1
              ELSE [buf1 EXCEPT ![offset_helper(off, n.right_id)] =
                      <<Times(@[1], right_p), Times(@[2], right_p)>>]
  IN [buffer |-> buf2, scores |-> sc2]

\* the loop over t.nodes.rbegin() .. rend(): from the last node down, until
\* the first leaf
RECURSIVE ReversePass(_, _, _, _)
ReversePass(t, pos, buf, sc) ==
  IF pos = 0 \/ t.nodes[pos].is_leaf
  THEN [buffer |-> buf, scores |-> sc]
  ELSE LET r == PropagateNode(t, t.nodes[pos], buf, sc)
       IN ReversePass(t, pos - 1, r.buffer, r.scores)

\* ------------------------------------------------------------------ state
NoCall == [op |-> "none", t |-> 0, k |-> 0, err |-> "none"]

Init ==
  /\ tree = [t \in Trees |-> EmptyTree]
  /\ prediction_buffer = <<>>
  /\ scores = <<>>
  /\ a_s = <<>>
  /\ pc = "idle"
  /\ cur = 0
  /\ idx = 0
  /\ calls = <<>>
  /\ stale = FALSE
  /\ last = NoCall
  /\ failures = 0

\* ------------------------------------------------------------------ actions
\* offset_tree::init(num_actions) -> build_tree(num_actions); failAt is the
\* allocation that throws bad_alloc (0: none does)
BuildTree(t, num_nodes, failAt) ==
  /\ pc = "idle"
  /\ LET r == build_tree(tree[t], num_nodes, failAt)
     IN /\ tree' = [tree EXCEPT ![t] = r.tree]
        /\ last' = [op |-> "build_tree", t |-> t, k |-> num_nodes, err |-> r.err]
        /\ failures' = IF r.err = "oom" THEN failures + 1 ELSE failures
  /\ UNCHANGED <<prediction_buffer, scores, a_s, pc, cur, idx, calls, stale>>

\* learn(tree, base, ec): always throws
Learn(t) ==
  /\ pc = "idle"
  /\ tree[t].initialized
  /\ last' = [op |-> "learn", t |-> t, k |-> leaf_node_count(tree[t]), err |-> "not_implemented"]
  /\ UNCHANGED <<tree, prediction_buffer, scores, a_s, pc, cur, idx, calls, stale, failures>>

\* predict(ot, base, ec) up to the scorer loop: clears ec.pred.a_s, enters
\* ot.predict, clears the buffer, resizes the scores and handles the trees
\* of zero and one leaf
PredictEnter(t) ==
  /\ pc = "idle"
  /\ tree[t].initialized
  /\ a_s' = clear(a_s)
  /\ prediction_buffer' = clear(prediction_buffer)
  /\ cur' = t
  /\ idx' = 0
  /\ calls' = <<>>
  /\ LET k == leaf_node_count(tree[t])
         resized == resize(scores, k)
     IN /\ stale' = (\E i \in 1..Len(resized) : resized[i] # Zero)
        /\ scores' = IF k = 1 THEN [resized EXCEPT ![1] = One] ELSE resized
        /\ pc' = IF k = 0 \/ k = 1 THEN "push"
                 ELSE IF 0 < internal_node_count(tree[t]) THEN "score" ELSE "propagate"
        /\ last' = [op |-> "predict", t |-> t, k |-> k, err |-> "none"]
  /\ UNCHANGED <<tree, failures>>

\* one iteration of the scorer loop: base.predict(ec, idx) leaves the pair in
\* ec.pred.a_s[0..1], which is appended to the buffer
ScoreNode(pair) ==
  /\ pc = "score"
  /\ idx < internal_node_count(tree[cur])
  /\ calls' = Append(calls, [idx |-> idx, pair |-> pair])
  /\ a_s' = << <<0, pair[1]>>, <<1, pair[2]>> >>
  /\ prediction_buffer' = Append(prediction_buffer, <<a_s'[1][2], a_s'[2][2]>>)
  /\ idx' = idx + 1
  /\ pc' = IF idx + 1 < internal_node_count(tree[cur]) THEN "score" ELSE "propagate"
  /\ UNCHANGED <<tree, scores, cur, stale, last, failures>>

\* the reverse pass over the nodes
Propagate ==
  /\ pc = "propagate"
  /\ LET r == ReversePass(tree[cur], Len(tree[cur].nodes), prediction_buffer, scores)
     IN /\ prediction_buffer' = r.buffer
        /\ scores' = r.scores
  /\ pc' = "push"
  /\ UNCHANGED <<tree, a_s, cur, idx, calls, stale, last, failures>>

\* back in predict(ot, base, ec): the scores are pushed onto ec.pred.a_s
PredictReturn ==
  /\ pc = "push"
  /\ a_s' = a_s \o [i \in 1..Len(scores) |-> <<i - 1, scores[i]>>]
  /\ pc' = "idle"
  /\ UNCHANGED <<tree, prediction_buffer, scores, cur, idx, calls, stale, last, failures>>

\* ------------------------------------------------------------------ specifications
\* the reduction with every allocation succeeding
Next ==
  \/ \E t \in Trees, k \in 0..MaxLeaves : BuildTree(t, k, 0)
  \/ \E t \in Trees : Learn(t)
  \/ \E t \in Trees : PredictEnter(t)
  \/ \E pair \in ScorerPairs : ScoreNode(pair)
  \/ Propagate
  \/ PredictReturn

Spec == Init /\ [][Next]_vars

\* tree construction alone, for larger leaf counts
NextTree ==
  \E t \in Trees, k \in 0..MaxTreeLeaves : BuildTree(t, k, 0)

SpecTree == Init /\ [][NextTree]_vars

\* tree construction where an allocation may throw bad_alloc
NextOOM ==
  \E t \in Trees, k \in 0..MaxLeaves :
    \E failAt \in 0..AllocCount(k) :
      /\ failAt > 0 => failures < MaxFailures
      /\ BuildTree(t, k, failAt)

SpecOOM == Init /\ [][NextOOM]_vars

\* ------------------------------------------------------------------ tree shape
\* positions (1 based) of the internal nodes that name the node id n as a child
Parents(ns, n) ==
  {p \in 1..Len(ns) : ~ns[p].is_leaf /\ (ns[p].left_id = n \/ ns[p].right_id = n)}

\* number of edges from the node id n up to the node without parent
RECURSIVE Depth(_, _)
Depth(ns, n) ==
  IF Parents(ns, n) = {} THEN 0
  ELSE 1 + Depth(ns, ns[CHOOSE p \in Parents(ns, n) : TRUE].id)

LeafDepths(t) == {Depth(t.nodes, i) : i \in 0..(t.num_leaf_nodes - 1)}

Max(S) == CHOOSE x \in S : \A y \in S : y <= x
Min(S) == CHOOSE x \in S : \A y \in S : x <= y

RECURSIVE Pow2(_)
Pow2(d) == IF d = 0 THEN 1 ELSE 2 * Pow2(d - 1)

\* ceil(log2(k)) for k >= 1
CeilLog2(k) == CHOOSE d \in 0..k : Pow2(d) >= k /\ (d = 0 \/ Pow2(d - 1) < k)

\* number of 0 digits in the binary form of m (0 has none)
RECURSIVE ZeroBits(_)
ZeroBits(m) ==
  IF m = 0 THEN 0 ELSE (IF m % 2 = 0 THEN 1 ELSE 0) + ZeroBits(m \div 2)

\* the trees build_tree has completed on
Built == {t \in Trees : tree[t].initialized}

\* C1: after build_tree(k) the tree has k leaves; for k >= 1 the node list
\* has 2k-1 nodes, the node at position i has id i, the ids 0..k-1 are the
\* leaves, the ids k..2k-2 the internal nodes, and an internal node's id is
\* greater than both its children's ids; for k = 0 the node list is empty.
NodeListShape ==
  /\ (last.op = "build_tree" /\ last.err = "none")
       => tree[last.t].initialized /\ tree[last.t].num_leaf_nodes = last.k
  /\ \A t \in Built :
       LET k == tree[t].num_leaf_nodes
           ns == tree[t].nodes
       IN IF k = 0 THEN ns = <<>>
          ELSE /\ Len(ns) = 2 * k - 1
               /\ \A i \in 1..Len(ns) :
                    /\ ns[i].id = i - 1
                    /\ ns[i].is_leaf <=> (i - 1 < k)
                    /\ ~ns[i].is_leaf =>
                         /\ ns[i].left_id < ns[i].id
                         /\ ns[i].right_id < ns[i].id

\* witness of C1: an odd leaf count (a candidate is carried forward) is built
NodeListShapeWitness ==
  \E t \in Built :
    /\ tree[t].num_leaf_nodes = 7
    /\ Len(tree[t].nodes) = 13
    /\ tree[t].nodes[13] = tree_node(12, 10, 11, FALSE)

\* C4 as stated: the depths of any two leaves differ by at most one.
LeafDepthsWithinOne ==
  \A t \in Built :
    tree[t].num_leaf_nodes >= 1 => Max(LeafDepths(tree[t])) - Min(LeafDepths(tree[t])) <= 1

\* C4 as amended: the largest difference between the depths of two leaves is
\* the number of 0 digits in the binary form of k-1 (one for every round with
\* an odd number of candidates), so the depths differ by at most one exactly
\* for the k where k-1 has at most one 0 digit.
LeafDepthSpread ==
  \A t \in Built :
    tree[t].num_leaf_nodes >= 1 =>
      Max(LeafDepths(tree[t])) - Min(LeafDepths(tree[t])) = ZeroBits(tree[t].num_leaf_nodes - 1)

\* witness of C4: 12 leaves (11 = 1011b) with depths 4 and 3, and 5 leaves
\* (4 = 100b) with depths 3 and 1
LeafDepthSpreadWitness ==
  /\ \E t \in Built : tree[t].num_leaf_nodes = 12 /\ LeafDepths(tree[t]) = {3, 4}
  /\ \E t \in Built : tree[t].num_leaf_nodes = 5 /\ LeafDepths(tree[t]) = {1, 3}

\* C5: the largest leaf depth is ceil(log2(k)); for k >= 2 root_idx is the
\* last node created (id 2k-2), and it is the only node that is nobody's child.
MinimumDepth ==
  \A t \in Built :
    LET k == tree[t].num_leaf_nodes
        ns == tree[t].nodes
    IN /\ k >= 1 => Max(LeafDepths(tree[t])) = CeilLog2(k)
       /\ k >= 2 =>
            /\ tree[t].root_idx = 2 * k - 2
            /\ tree[t].root_idx = ns[Len(ns)].id
            /\ {i \in 1..Len(ns) : Parents(ns, ns[i].id) = {}} = {tree[t].root_idx + 1}

\* witness of C5: a power of two and the count after it
MinimumDepthWitness ==
  /\ \E t \in Built : tree[t].num_leaf_nodes = 8 /\ LeafDepths(tree[t]) = {3}
  /\ \E t \in Built : tree[t].num_leaf_nodes = 9 /\ Max(LeafDepths(tree[t])) = 4
                      /\ tree[t].root_idx = 16

\* ------------------------------------------------------------------ predict
\* the pair the running call's scorer invocation with index i returned
Response(i) ==
  (CHOOSE c \in {calls[j] : j \in 1..Len(calls)} : c.idx = i).pair

\* product of the probabilities chosen along the path from the root to node n
RECURSIVE PathProduct(_, _)
PathProduct(t, n) ==
  IF Parents(t.nodes, n) = {} THEN One
  ELSE LET p == t.nodes[CHOOSE q \in Parents(t.nodes, n) : TRUE]
           pair == Response(p.id - t.num_leaf_nodes)
       IN Times(PathProduct(t, p.id), IF p.left_id = n THEN pair[1] ELSE pair[2])

SameValue(a, b) == a[1] * b[2] = b[1] * a[2]

RECURSIVE GCD(_, _)
GCD(a, b) == IF b = 0 THEN a ELSE GCD(b, a % b)

Plus(a, b) ==
  LET n == a[1] * b[2] + b[1] * a[2]
      d == a[2] * b[2]
      g == GCD(n, d)
  IN <<n \div g, d \div g>>

RECURSIVE Sum(_)
Sum(v) == IF v = <<>> THEN Zero ELSE Plus(v[1], Sum(Tail(v)))

\* offset_tree::predict has returned and no later call has begun
Returned == cur # 0 /\ pc \in {"push", "idle"}

\* C2: predict returns k scores, the score of leaf i being the product of the
\* probabilities along the path from the root to i, taken from the pairs the
\* current call's scorer invocations returned, whatever an earlier call left
\* in the buffers.
ScoresArePathProducts ==
  Returned =>
    LET t == tree[cur]
    IN /\ Len(scores) = t.num_leaf_nodes
       /\ \A i \in 0..(t.num_leaf_nodes - 1) : SameValue(scores[i + 1], PathProduct(t, i))
       /\ t.num_leaf_nodes = 1 => scores = <<One>>

\* witness of C2: the example of four leaves, with values of an earlier call
\* in the score buffer when the call began
ScoresArePathProductsWitness ==
  /\ Returned
  /\ stale
  /\ tree[cur].num_leaf_nodes = 4
  /\ Response(2) = << <<9, 10>>, <<1, 10>> >>
  /\ Response(0) = << <<6, 10>>, <<4, 10>> >>
  /\ Response(1) = << <<3, 10>>, <<7, 10>> >>
  /\ scores = << <<54, 100>>, <<36, 100>>, <<3, 100>>, <<7, 100>> >>

\* every pair the running call's scorer returned sums to 1
Normalized ==
  \A j \in 1..Len(calls) : SameValue(Plus(calls[j].pair[1], calls[j].pair[2]), One)

\* C3: when every pair sums to 1, the k >= 1 scores sum to exactly one
ScoresSumToOne ==
  (Returned /\ Normalized /\ tree[cur].num_leaf_nodes >= 1) => SameValue(Sum(scores), One)

\* witness of C3: three leaves, leaf 2 hanging off the root
ScoresSumToOneWitness ==
  /\ Returned
  /\ Normalized
  /\ tree[cur].num_leaf_nodes = 3
  /\ Len(calls) = 2
  /\ scores[3] = <<1, 10>>
  /\ SameValue(Sum(scores), One)

\* the scores of a call whose scorer broke the contract do not sum to 1
UnnormalizedWitness ==
  Returned /\ ~Normalized /\ tree[cur].num_leaf_nodes = 2 /\ ~SameValue(Sum(scores), One)

\* C6: a predict call invokes the scorer internal_node_count() times, that is
\* never for k <= 1 and k-1 times for k >= 2, with the indices 0, 1, ..., k-2
\* in this order, and the reverse pass starts only after the last invocation.
ScorerInvocations ==
  cur # 0 =>
    LET k == tree[cur].num_leaf_nodes
        n == IF k <= 1 THEN 0 ELSE k - 1
    IN /\ \A j \in 1..Len(calls) : calls[j].idx = j - 1
       /\ Len(calls) <= n
       /\ pc = "score" => Len(calls) = idx /\ idx < n
       /\ pc \in {"propagate", "push", "idle"} =>
            Len(calls) = n /\ Len(calls) = internal_node_count(tree[cur])

\* witness of C6: the reverse pass of a tree of four leaves is about to start
ScorerInvocationsWitness ==
  /\ pc = "propagate"
  /\ tree[cur].num_leaf_nodes = 4
  /\ [j \in 1..Len(calls) |-> calls[j].idx] = <<0, 1, 2>>
  /\ Len(prediction_buffer) = 3

\* C7: after the reduction-level predict the action-score list is exactly
\* the k pairs (i, scores[i]) in leaf order.
ActionScoresAreLeafScores ==
  (cur # 0 /\ pc = "idle") =>
    a_s = [i \in 1..tree[cur].num_leaf_nodes |-> <<i - 1, scores[i]>>]

\* ------------------------------------------------------------------ frame, errors
\* C8: a tree build_tree has completed on is never changed again
BuiltTreeIsFrozen ==
  [][\A t \in Trees : tree[t].initialized => tree'[t] = tree[t]]_vars

\* witness of C8: build_tree(k) is repeated with the same k, without error,
\* on a tree that predict has run on
BuiltTreeIsFrozenWitness ==
  /\ last.op = "build_tree"
  /\ last.err = "none"
  /\ last.t = cur
  /\ last.k = 3
  /\ Len(tree[cur].nodes) = 5

\* C9: build_tree(k2) on a tree built with k # k2 throws the conflict error
\* and leaves the tree as it was
ConflictOnOtherCount ==
  [][(/\ last'.op = "build_tree"
      /\ tree[last'.t].initialized
      /\ last'.k # tree[last'.t].num_leaf_nodes)
       => (last'.err = "conflict" /\ tree' = tree)]_vars

\* witness of C9: the conflict on a tree of zero leaves
ConflictOnOtherCountWitness ==
  /\ last.op = "build_tree"
  /\ last.err = "conflict"
  /\ last.k = 2
  /\ tree[last.t].initialized
  /\ tree[last.t].num_leaf_nodes = 0
  /\ tree[last.t].nodes = <<>>

\* C10: a build_tree that throws bad_alloc leaves the tree as it was before
\* the call, and a later build_tree(k) on it gives the tree of a first
\* build_tree(k).
NoPartialMutationOnOOM ==
  [][/\ failures' = failures + 1 => tree' = tree
     /\ (last'.op = "build_tree" /\ last'.err = "none" /\ ~tree[last'.t].initialized)
          => tree'[last'.t] = build_tree(EmptyTree, last'.k, 0).tree]_vars

====
